---- MODULE Spec2Model ----
(***************************************************************************)
(* Model of magic-loc-central: the multi-stream synchronizer               *)
(* (src/bin/magic-loc-central.rs, synchronize) and the serial frame        *)
(* decoder (src/stream_decoder.rs, MagicLocStreamDecoder::decode).         *)
(***************************************************************************)
EXTENDS Integers, Sequences, FiniteSets, TLC

(***************************************************************************)
(* Bounds of the model.                                                    *)
(***************************************************************************)
\* number of serial ports (anchors); one FIFO per port
NumAnchors == 3
\* longest FIFO the model lets a push build
MaxLen == 3
\* most reports held by all FIFOs together
MaxTotal == 7

\* trigger_txts values the pushed reports carry
Keys == {5, 7, 9, 10}

Anchors == 1..NumAnchors

\* longest byte stream the model feeds to the decoder
MaxStream == 9

\* byte values the serial stream carries: the delimiter, the two non-zero
\* header bytes, which also serve as payload and noise bytes
Bytes == {0, 1, 255}

\* Option::None, Option::Some(x), and a panic unwinding out of the call
None == [tag |-> "None"]
Some(x) == [tag |-> "Some", val |-> x]
Panic == [tag |-> "panic"]

VARIABLES
    serial_fifos,   \* Vec<VecDeque<RangeReport>>, one queue per anchor
    sync_ret,       \* what the last synchronize call returned
    op,             \* the operation that produced the current state
    drain_start,    \* the FIFOs as they were after the last push
    emitted,        \* keys of the batches returned since the last push
    src,            \* BytesMut: the decoder's buffer
    dec_ret,        \* what the last decode call returned (inside Ok)
    dec_op,         \* the decoder operation that produced the current state
    stream,         \* every byte appended to the buffer so far
    frames,         \* the frames decode has returned so far
    resync,         \* the buffer left by the last header-mismatch discard, and
                    \* the number of frames returned before it
    loc_ranges,     \* localize_point: the distances it is called with
    loc_pc,         \* localize_point: "call" before the call, "done" after it
    loc_points,     \* localize_point: points after the removal loop
    loc_distances,  \* localize_point: distances after the removal loop
    loc_ret,        \* localize_point: what it returned
    gn_points,      \* least_squares_solution: points.len()
    gn_distances,   \* least_squares_solution: distances.len()
    gn_finite,      \* least_squares_solution: all distances are finite
    gn_pc,          \* least_squares_solution: "entry", "loop" or "done"
    gn_iter,        \* least_squares_solution: iterations of the for loop begun
    gn_ret,         \* least_squares_solution: what it returned
    cir_meta,       \* CirReport: the fields of the report other than cir
    cir_i,          \* From<CirReport>: the index i of the for loop
    cir_raw,        \* From<CirReport>: report.cir[i - 1], the sample converted last
    cir_conv,       \* From<CirReport>: cir[i - 1], what it was converted to
    cir_out,        \* From<CirReport>: the fields of the ConvertedCirReport, once built
    drv_pc,         \* sync_and_publish: where the loop is (recv, send_ranges, send_points, send_imu, stopped)
    drv_fifos,      \* sync_and_publish: serial_fifos, the reports with their ranges
    drv_packets,    \* sync_and_publish: packets, the batch being handled
    drv_last_imu_ts,\* sync_and_publish: last_imu_ts
    drv_stop,       \* sync_and_publish: the panic that ended the loop
    drv_log,        \* what was done since the last frame was read: batches extracted and messages sent
    drv_nframes,    \* the number of frames read so far
    ord_fifos,      \* serial_fifos, every report with its place among the pushes to its queue
    ord_pushed,     \* every report pushed so far, per queue
    ord_batches,    \* the batches synchronize has returned so far
    ord_ret         \* what the last synchronize call returned

sync_vars == <<serial_fifos, sync_ret, op, drain_start, emitted>>
dec_vars == <<src, dec_ret, dec_op, stream, frames, resync>>
loc_vars == <<loc_ranges, loc_pc, loc_points, loc_distances, loc_ret>>
gn_vars == <<gn_points, gn_distances, gn_finite, gn_pc, gn_iter, gn_ret>>
cir_vars == <<cir_meta, cir_i, cir_raw, cir_conv, cir_out>>
drv_vars == <<drv_pc, drv_fifos, drv_packets, drv_last_imu_ts, drv_stop, drv_log, drv_nframes>>
ord_vars == <<ord_fifos, ord_pushed, ord_batches, ord_ret>>
vars == <<serial_fifos, sync_ret, op, drain_start, emitted,
          src, dec_ret, dec_op, stream, frames, resync,
          loc_ranges, loc_pc, loc_points, loc_distances, loc_ret,
          gn_points, gn_distances, gn_finite, gn_pc, gn_iter, gn_ret,
          cir_meta, cir_i, cir_raw, cir_conv, cir_out,
          drv_pc, drv_fifos, drv_packets, drv_last_imu_ts, drv_stop, drv_log, drv_nframes,
          ord_fifos, ord_pushed, ord_batches, ord_ret>>

\* what the synchronizer, the decoder, localize_point and
\* least_squares_solution leave alone
not_sync_vars == <<dec_vars, loc_vars, gn_vars, cir_vars, drv_vars, ord_vars>>
not_dec_vars == <<sync_vars, loc_vars, gn_vars, cir_vars, drv_vars, ord_vars>>
not_loc_vars == <<sync_vars, dec_vars, gn_vars, cir_vars, drv_vars, ord_vars>>
not_gn_vars == <<sync_vars, dec_vars, loc_vars, cir_vars, drv_vars, ord_vars>>
not_cir_vars == <<sync_vars, dec_vars, loc_vars, gn_vars, drv_vars, ord_vars>>
not_drv_vars == <<sync_vars, dec_vars, loc_vars, gn_vars, cir_vars, ord_vars>>
not_ord_vars == <<sync_vars, dec_vars, loc_vars, gn_vars, cir_vars, drv_vars>>

(***************************************************************************)
(* RangeReport (src/proto.rs).  The report a port delivers carries the     *)
(* address of the anchor behind that port and the trigger timestamp.       *)
(***************************************************************************)
RangeReport(a, k) == [tag_addr |-> a, trigger_txts |-> k]

\* sum of f[i] for i in S
RECURSIVE SumOver(_, _)
SumOver(f, S) ==
    IF S = {} THEN 0
    ELSE LET i == CHOOSE x \in S : TRUE IN f[i] + SumOver(f, S \ {i})

\* (mutant) the emptiness check passes unless every queue is empty
AnyEmpty_AllEmpty(fifos) == \A i \in Anchors : fifos[i] = <<>>

\* fifo.is_empty() for some fifo
AnyEmpty(fifos) == \E i \in Anchors : fifos[i] = <<>>

\* number of reports of one queue that carry k
CountIn(q, k) == Cardinality({j \in 1..Len(q) : q[j].trigger_txts = k})

\* (mutant) only the first queue is counted
TxtsCount_FirstOnly(fifos, k) == NumAnchors * CountIn(fifos[1], k)

\* txts_count[k]: occurrences of k over the contents of all the queues
TxtsCount(fifos, k) == SumOver([i \in Anchors |-> CountIn(fifos[i], k)], Anchors)

\* (mutant) the counts start at one: or_insert(1) followed by += 1
TxtsMatches_CountFromOne(fifos) ==
    {k \in Keys : (\E i \in Anchors : CountIn(fifos[i], k) > 0)
                  /\ TxtsCount(fifos, k) + 1 = NumAnchors}

\* the entries `find` can return: count == serial_fifos.len()
TxtsMatches(fifos) ==
    {k \in Keys : (\E i \in Anchors : CountIn(fifos[i], k) > 0)
                  /\ TxtsCount(fifos, k) = NumAnchors}

\* while let Some(front) = fifo.front() { if front.trigger_txts == m {break}; pop_front }
RECURSIVE DropUntil(_, _)
DropUntil(q, m) ==
    IF q = <<>> THEN <<>>
    ELSE IF Head(q).trigger_txts = m THEN q
    ELSE DropUntil(Tail(q), m)


\* (mutant) the discard loop is skipped
Discarded_KeepAll(fifos, m) == fifos

\* lines 70-79: every queue drops its leading reports that do not carry m
Discarded(fifos, m) == [i \in Anchors |-> DropUntil(fifos[i], m)]

\* lines 90-93: fifo.pop_front().unwrap() panics on an empty queue
PopPanics(fifos) == \E i \in Anchors : fifos[i] = <<>>

\* (mutant) the batch is made of the last report of every queue
Packets_Last(fifos) == [i \in Anchors |-> fifos[i][Len(fifos[i])]]

\* the batch: the front of every queue
Packets(fifos) == [i \in Anchors |-> Head(fifos[i])]

\* (mutant) the pop loop empties every queue
Popped_Clear(fifos) == [i \in Anchors |-> <<>>]

\* the queues after fifo.pop_front() on each, lines 90-93
Popped(fifos) == [i \in Anchors |-> Tail(fifos[i])]

\* the first queue, in iteration order, on which pop_front().unwrap() panics
FirstEmpty(fifos) ==
    CHOOSE i \in Anchors :
        /\ fifos[i] = <<>>
        /\ \A j \in Anchors : j < i => fifos[j] # <<>>

\* the queues when the pop loop panics: the loop pops queue by queue, so the
\* queues before the empty one have already lost their front
PoppedBeforePanic(fifos) ==
    [i \in Anchors |-> IF i < FirstEmpty(fifos) THEN Tail(fifos[i]) ELSE fifos[i]]

\* the key of a returned batch (the trigger_txts of its first report)
BatchKey(batch) == batch[1].trigger_txts

SyncInit ==
    /\ serial_fifos = [i \in Anchors |-> <<>>]
    /\ sync_ret = None
    /\ op = "init"
    /\ drain_start = [i \in Anchors |-> <<>>]
    /\ emitted = <<>>

TotalLen(fifos) == SumOver([i \in Anchors |-> Len(fifos[i])], Anchors)

\* serial_fifos[id].push_back(decoded), line 152
Push(id, k) ==
    /\ op # "panic"
    /\ Len(serial_fifos[id]) < MaxLen
    /\ TotalLen(serial_fifos) < MaxTotal
    /\ serial_fifos' = [serial_fifos EXCEPT ![id] = Append(@, RangeReport(id, k))]
    /\ drain_start' = serial_fifos'
    /\ emitted' = <<>>
    /\ sync_ret' = None
    /\ op' = "push"
    /\ UNCHANGED not_sync_vars

\* synchronize returns None at line 46: some queue is empty
SyncEmpty ==
    /\ op # "panic"
    /\ AnyEmpty(serial_fifos)
    /\ sync_ret' = None
    /\ op' = "synchronize"
    /\ UNCHANGED <<serial_fifos, drain_start, emitted>>
    /\ UNCHANGED not_sync_vars

\* synchronize returns None at line 65: no count equals the number of queues
SyncNoMatch ==
    /\ op # "panic"
    /\ ~AnyEmpty(serial_fifos)
    /\ TxtsMatches(serial_fifos) = {}
    /\ sync_ret' = None
    /\ op' = "synchronize"
    /\ UNCHANGED <<serial_fifos, drain_start, emitted>>
    /\ UNCHANGED not_sync_vars

\* synchronize with txts_match = m (lines 68-99): discard the leading
\* reports, return None at line 84 if a queue ran empty, else pop one report
\* from every queue
SyncMatch(m) ==
    /\ op # "panic"
    /\ ~AnyEmpty(serial_fifos)
    /\ m \in TxtsMatches(serial_fifos)
    /\ LET d == Discarded(serial_fifos, m) IN
         IF AnyEmpty(d)
         THEN /\ serial_fifos' = d
              /\ sync_ret' = None
              /\ emitted' = emitted
              /\ op' = "synchronize"
         ELSE IF PopPanics(d)
         THEN /\ serial_fifos' = PoppedBeforePanic(d)
              /\ sync_ret' = Panic
              /\ emitted' = emitted
              /\ op' = "panic"
         ELSE /\ serial_fifos' = Popped(d)
              /\ sync_ret' = Some(Packets(d))
              /\ emitted' = Append(emitted, BatchKey(Packets(d)))
              /\ op' = "synchronize"
    /\ UNCHANGED drain_start
    /\ UNCHANGED not_sync_vars

(***************************************************************************)
(* The older synchronize of src/main.rs.  Lines 36-62 are those of the     *)
(* function above (emptiness check, counting, find), so the calls that     *)
(* return there are SyncEmpty and SyncNoMatch; the rest differs: there is  *)
(* no second emptiness check between the discard loop and the pop loop.    *)
(***************************************************************************)
\* synchronize of src/main.rs with txts_match = m (lines 64-84): discard the
\* leading reports, then fifo.pop_front().unwrap() on every queue in turn; a
\* panic at line 81 leaves the earlier queues popped
SyncMatchMain(m) ==
    /\ op # "panic"
    /\ ~AnyEmpty(serial_fifos)
    /\ m \in TxtsMatches(serial_fifos)
    /\ LET d == Discarded(serial_fifos, m) IN
         IF PopPanics(d)
         THEN /\ serial_fifos' = PoppedBeforePanic(d)
              /\ sync_ret' = Panic
              /\ emitted' = emitted
              /\ op' = "panic"
         ELSE /\ serial_fifos' = Popped(d)
              /\ sync_ret' = Some(Packets(d))
              /\ emitted' = Append(emitted, BatchKey(Packets(d)))
              /\ op' = "synchronize"
    /\ UNCHANGED drain_start
    /\ UNCHANGED not_sync_vars

(***************************************************************************)
(* MagicLocStreamDecoder::decode (src/stream_decoder.rs).  Buffer indices  *)
(* are 0-based as in the source; src[i] is element i+1 of the sequence.    *)
(***************************************************************************)
\* src[i]
At(buf, i) == buf[i + 1]

\* src[i] panics when i is out of range
IndexPanics(buf, i) == i >= Len(buf)

\* src.advance(cnt) panics when cnt > src.len(); otherwise drops cnt bytes
AdvancePanics(buf, cnt) == cnt > Len(buf)

\* (mutant) advance drops one byte more
Advance_OneMore(buf, cnt) == SubSeq(buf, cnt + 2, Len(buf))

Advance(buf, cnt) == SubSeq(buf, cnt + 1, Len(buf))

\* src.split_to(at) panics when at > src.len(); returns the first at bytes
\* and leaves the rest in src
SplitPanics(buf, at) == at > Len(buf)
SplitFront(buf, at) == SubSeq(buf, 1, at)
SplitRest(buf, at) == SubSeq(buf, at + 1, Len(buf))

\* the loop of lines 31-37: indices of the zero bytes of the buffer
ZeroIndices(buf) == {i \in 0..(Len(buf) - 1) : At(buf, i) = 0}

\* the loop of lines 55-61: zero bytes at an index > 0
ZeroIndicesAfterFirst(buf) == {i \in 0..(Len(buf) - 1) : At(buf, i) = 0 /\ i > 0}

\* (mutant) the index of the third loop counts from the start of the buffer
ZeroIndicesSkip4_Absolute(buf) == {i \in 4..(Len(buf) - 1) : At(buf, i) = 0}

\* the loop of lines 74-80: src.iter().skip(4).enumerate(), so the indices
\* count from the fifth byte
ZeroIndicesSkip4(buf) == {i \in 0..(Len(buf) - 5) : At(buf, i + 4) = 0}

\* the first index a loop breaks at
MinOf(S) == CHOOSE x \in S : \A y \in S : x <= y

\* (mutant) the length check lets three bytes through
TooShort_Three(buf) == Len(buf) < 3

\* line 46: too few bytes for the header check
TooShort(buf) == Len(buf) < 4

\* line 51, with the short-circuit evaluation of ||: the index that panics,
\* if any, is the first one evaluated out of range
HeaderCheckPanics(buf) ==
    \/ IndexPanics(buf, 1)
    \/ At(buf, 1) = 255 /\ IndexPanics(buf, 2)
    \/ At(buf, 1) = 255 /\ At(buf, 2) = 1 /\ IndexPanics(buf, 3)

\* (mutant) the header check leaves out the fourth byte
HeaderMismatch_TwoBytes(buf) == At(buf, 1) # 255 \/ At(buf, 2) # 1

HeaderMismatch(buf) == At(buf, 1) # 255 \/ At(buf, 2) # 1 \/ At(buf, 3) # 0

\* the outcome of one call: the buffer it leaves, what it returns, and
\* whether it took the header-mismatch branch
DecodeResult(buf, ret, mis) == [src |-> buf, ret |-> ret, mismatch |-> mis]

\* (mutant) the split takes the terminating zero byte along
DecodeAfterHeader_WithTerminator(buf) ==
    IF ZeroIndicesSkip4(buf) = {}
    THEN DecodeResult(buf, None, FALSE)
    ELSE LET zero_byte_index == MinOf(ZeroIndicesSkip4(buf)) IN
         DecodeResult(SplitRest(buf, zero_byte_index + 5),
                      Some(SplitFront(buf, zero_byte_index + 5)), FALSE)

\* lines 71-87, on a buffer that starts with a validated header
DecodeAfterHeader(buf) ==
    IF ZeroIndicesSkip4(buf) = {}
    THEN DecodeResult(buf, None, FALSE)
    ELSE LET zero_byte_index == MinOf(ZeroIndicesSkip4(buf)) IN
         IF SplitPanics(buf, zero_byte_index + 4)
         THEN DecodeResult(buf, Panic, FALSE)
         ELSE DecodeResult(SplitRest(buf, zero_byte_index + 4),
                           Some(SplitFront(buf, zero_byte_index + 4)), FALSE)

\* (mutant) a header mismatch clears the buffer
DecodeMismatch_Clear(buf) == DecodeResult(<<>>, None, TRUE)

\* lines 52-68: not a valid packet, drop until the next zero byte
DecodeMismatch(buf) ==
    IF ZeroIndicesAfterFirst(buf) = {}
    THEN DecodeResult(<<>>, None, TRUE)
    ELSE LET zero_byte_index == MinOf(ZeroIndicesAfterFirst(buf)) IN
         IF AdvancePanics(buf, zero_byte_index)
         THEN DecodeResult(buf, Panic, TRUE)
         ELSE DecodeResult(Advance(buf, zero_byte_index), None, TRUE)

\* lines 44-88, on a buffer whose first byte is the zero byte
DecodeFromZero(buf) ==
    IF TooShort(buf) THEN DecodeResult(buf, None, FALSE)
    ELSE IF HeaderCheckPanics(buf) THEN DecodeResult(buf, Panic, FALSE)
    ELSE IF HeaderMismatch(buf) THEN DecodeMismatch(buf)
    ELSE DecodeAfterHeader(buf)

\* decode, lines 21-88
Decode(buf) ==
    IF Len(buf) = 0 THEN DecodeResult(buf, None, FALSE)
    ELSE IF ZeroIndices(buf) = {} THEN DecodeResult(<<>>, None, FALSE)
    ELSE LET zero_byte_index == MinOf(ZeroIndices(buf)) IN
         IF AdvancePanics(buf, zero_byte_index)
         THEN DecodeResult(buf, Panic, FALSE)
         ELSE DecodeFromZero(Advance(buf, zero_byte_index))

DecInit ==
    /\ src = <<>>
    /\ dec_ret = None
    /\ dec_op = "init"
    /\ stream = <<>>
    /\ frames = <<>>
    /\ resync = [buf |-> <<>>, nframes |-> 0]

\* the framed reader appends a byte read from the serial port to the buffer
Extend(b) ==
    /\ dec_op # "panic"
    /\ Len(stream) < MaxStream
    /\ src' = Append(src, b)
    /\ stream' = Append(stream, b)
    /\ dec_op' = "extend"
    /\ UNCHANGED <<dec_ret, frames, resync>>
    /\ UNCHANGED not_dec_vars

\* one call of decode on the buffer
DecodeCall ==
    /\ dec_op # "panic"
    /\ LET r == Decode(src) IN
         /\ src' = r.src
         /\ dec_ret' = r.ret
         /\ dec_op' = IF r.ret = Panic THEN "panic" ELSE "decode"
         /\ frames' = IF r.ret.tag = "Some" THEN Append(frames, r.ret.val) ELSE frames
         /\ resync' = IF r.mismatch /\ r.ret = None
                      THEN [buf |-> r.src, nframes |-> Len(frames)]
                      ELSE resync
    /\ stream' = stream
    /\ UNCHANGED not_dec_vars

(***************************************************************************)
(* localize_point and least_squares_solution (src/optimization.rs).        *)
(* A distance is a finite value in hundredths of a metre or one of the     *)
(* non-finite f64 values; a point is an entry of COORDINATES in tenths.    *)
(***************************************************************************)
Fin(v) == [cls |-> "fin", v |-> v]
PInf == [cls |-> "pinf"]
NInf == [cls |-> "ninf"]
NaN == [cls |-> "nan"]

\* 1e6 (line 68), in hundredths
Threshold == 100000000

\* max_iterations (line 15)
MaxIterations == 45

\* configuration::COORDINATES, in tenths
COORDINATES ==
    << <<61, 92, 30>>, <<50, 0, 27>>, <<89, 91, 30>>, <<38, 0, 25>>,
       <<8, 0, 28>>, <<20, 90, 30>>, <<57, 92, 15>>, <<61, 92, 0>> >>

\* the distances a range report can carry for anchor slot i: a measured
\* one, a finite one above the threshold, and the non-finite ones
RangeValues(i) == {Fin(100 * i), Fin(Threshold + 1), PInf, NInf, NaN}

\* (mutant) the comparison is >= 0, so that every measured distance goes
GreaterThan1e6_All(x) == x.cls = "pinf" \/ (x.cls = "fin" /\ x.v >= 0)

\* distances[i] > 1e6 as f64 compares: false for NaN and for -inf
GreaterThan1e6(x) == x.cls = "pinf" \/ (x.cls = "fin" /\ x.v > Threshold)

\* Vec::remove(i), i counted from 0; it panics when i >= len
RemovePanics(v, i) == i >= Len(v)

\* (mutant) remove takes the last element out
Remove_Last(v, i) == SubSeq(v, 1, Len(v) - 1)

Remove(v, i) == SubSeq(v, 1, i) \o SubSeq(v, i + 2, Len(v))

\* the while loop of lines 66-74, from index i on.  distances.remove(i) at
\* line 69 cannot panic (the loop guard gives i < distances.len()); when
\* points.remove(i) at line 70 panics, distances[i] is already gone
RECURSIVE RemovalLoop(_, _, _)
RemovalLoop(points, distances, i) ==
    IF ~(i < Len(distances))
    THEN [points |-> points, distances |-> distances, panic |-> FALSE]
    ELSE IF GreaterThan1e6(distances[i + 1])
    THEN IF RemovePanics(points, i)
         THEN [points |-> points, distances |-> Remove(distances, i), panic |-> TRUE]
         ELSE RemovalLoop(Remove(points, i), Remove(distances, i), i)
    ELSE RemovalLoop(points, distances, i + 1)

\* the guess the Gauss-Newton loop returns at line 49 or 53 for these
\* points and distances; its value is left uninterpreted
Guess(points, distances) == [points |-> points, distances |-> distances]

\* (mutant) the entry check only looks at the lengths being equal
EntryReturnsNone_LengthsOnly(np, nd) == np # nd

\* lines 7-9: points.len() != distances.len() || points.is_empty()
EntryReturnsNone(np, nd) == np # nd \/ np = 0

\* least_squares_solution as localize_point sees it: None from the entry
\* check, otherwise Some(guess) from line 49 or line 53
LeastSquaresSolution(points, distances) ==
    IF EntryReturnsNone(Len(points), Len(distances)) THEN None
    ELSE Some(Guess(points, distances))

\* localize_point, lines 59-77
LocalizePointResult(distances) ==
    LET r == RemovalLoop(COORDINATES, distances, 0) IN
    [points |-> r.points, distances |-> r.distances,
     ret |-> IF r.panic THEN Panic ELSE LeastSquaresSolution(r.points, r.distances)]

LocIdle ==
    /\ loc_ranges = <<>>
    /\ loc_pc = "idle"
    /\ loc_points = <<>>
    /\ loc_distances = <<>>
    /\ loc_ret = None

\* a call of localize_point with any eight distances
LocInit ==
    /\ loc_ranges \in RangeValues(1) \X RangeValues(2) \X RangeValues(3) \X RangeValues(4)
                     \X RangeValues(5) \X RangeValues(6) \X RangeValues(7) \X RangeValues(8)
    /\ loc_pc = "call"
    /\ loc_points = <<>>
    /\ loc_distances = <<>>
    /\ loc_ret = None

LocalizePoint ==
    /\ loc_pc = "call"
    /\ LET r == LocalizePointResult(loc_ranges) IN
         /\ loc_points' = r.points
         /\ loc_distances' = r.distances
         /\ loc_ret' = r.ret
    /\ loc_pc' = "done"
    /\ UNCHANGED loc_ranges
    /\ UNCHANGED not_loc_vars

\* largest number of points and of distances least_squares_solution is
\* called with
MaxPairs == 5

GnIdle ==
    /\ gn_points = 0
    /\ gn_distances = 0
    /\ gn_finite = TRUE
    /\ gn_pc = "idle"
    /\ gn_iter = 0
    /\ gn_ret = None

\* a call of least_squares_solution with any two slices
GnInit ==
    /\ gn_points \in 0..MaxPairs
    /\ gn_distances \in 0..MaxPairs
    /\ gn_finite \in BOOLEAN
    /\ gn_pc = "entry"
    /\ gn_iter = 0
    /\ gn_ret = None

\* (mutant) running out of iterations reports failure
BestGuess_None(g) == None

\* line 53: Some(guess), the best guess
BestGuess(g) == Some(g)

\* lines 7-9 return None
GnEntryNone ==
    /\ gn_pc = "entry"
    /\ EntryReturnsNone(gn_points, gn_distances)
    /\ gn_ret' = None
    /\ gn_pc' = "done"
    /\ UNCHANGED <<gn_points, gn_distances, gn_finite, gn_iter>>
    /\ UNCHANGED not_gn_vars

\* lines 11-16: the guess is the origin, the loop begins
GnEntryLoop ==
    /\ gn_pc = "entry"
    /\ ~EntryReturnsNone(gn_points, gn_distances)
    /\ gn_pc' = "loop"
    /\ UNCHANGED <<gn_points, gn_distances, gn_finite, gn_iter, gn_ret>>
    /\ UNCHANGED not_gn_vars

\* one iteration, lines 18-51: Jacobian, residuals, pseudo-inverse (eps is
\* 1e-9, so the unwrap at line 44 has an Ok), update of the guess, and the
\* test of line 48, which a residual that is not finite never passes
GnIterate(converged) ==
    /\ gn_pc = "loop"
    /\ gn_iter < MaxIterations
    /\ converged => gn_finite
    /\ gn_iter' = gn_iter + 1
    /\ IF converged
       THEN gn_ret' = Some("guess") /\ gn_pc' = "done"
       ELSE gn_ret' = gn_ret /\ gn_pc' = "loop"
    /\ UNCHANGED <<gn_points, gn_distances, gn_finite>>
    /\ UNCHANGED not_gn_vars

\* the loop has run max_iterations times: line 53
GnCap ==
    /\ gn_pc = "loop"
    /\ ~(gn_iter < MaxIterations)
    /\ gn_ret' = BestGuess("guess")
    /\ gn_pc' = "done"
    /\ UNCHANGED <<gn_points, gn_distances, gn_finite, gn_iter>>
    /\ UNCHANGED not_gn_vars

(***************************************************************************)
(* impl From<CirReport> for ConvertedCirReport (src/proto.rs).  The for    *)
(* loop converts the samples one by one and independently of each other;   *)
(* the model keeps the sample converted last.  An f64 is a sign, an odd    *)
(* mantissa (or 0) and a power of two.                                     *)
(***************************************************************************)
\* the number of samples of a report, [RawCirSample; 16]
CirLen == 16

\* byte values of a sample component
CirBytes == {0, 127, 128, 255}
Triples == CirBytes \X CirBytes \X CirBytes

\* the components with the smallest and the largest magnitudes
Corners == {<<0, 0, 0>>, <<255, 255, 127>>, <<0, 0, 128>>, <<255, 255, 255>>}

\* the samples a report is built from: one component is any triple, the
\* other one a corner
Samples ==
    {[real |-> t, imag |-> u] : t \in Triples, u \in Corners}
        \cup {[real |-> u, imag |-> t] : t \in Triples, u \in Corners}

\* the fields of a CirReport other than cir
Metas ==
    {[src_addr |-> 1, system_ts |-> 2, seq_num |-> 3, ip_poa |-> 4,
      fp_index |-> 5, start_index |-> 6, cir_size |-> 16],
     [src_addr |-> 65535, system_ts |-> 2147483647, seq_num |-> 255, ip_poa |-> 65534,
      fp_index |-> 65533, start_index |-> 65532, cir_size |-> 65531]}

\* (mutant) the fourth byte is always 0x00
SignByte_Zero(b2) == 0

\* if b2 & 0x80 == 0x80 { 0xFF } else { 0x00 }, lines 77 and 83
SignByte(b2) == IF (b2 \div 128) % 2 = 1 THEN 255 ELSE 0

\* i32::from_le_bytes([b0, b1, b2, b3]): the two's-complement value of the
\* 32 bits; the top byte counts as b3 - 256 when its sign bit is set
FromLeBytesI32(b0, b1, b2, b3) ==
    b0 + 256 * b1 + 65536 * b2 + 16777216 * (IF b3 >= 128 THEN b3 - 256 ELSE b3)

\* n as f64 for an i32 n: exact, since |n| <= 2^31 has at most 32 significant
\* bits and an f64 holds 53
RECURSIVE Normalize(_, _)
Normalize(m, e) == IF m % 2 = 0 THEN Normalize(m \div 2, e + 1) ELSE [mant |-> m, exp |-> e]

AsF64(n) ==
    IF n = 0 THEN [neg |-> FALSE, mant |-> 0, exp |-> 0]
    ELSE LET a == IF n < 0 THEN 0 - n ELSE n
             r == Normalize(a, 0)
         IN [neg |-> n < 0, mant |-> r.mant, exp |-> r.exp]

\* lines 73-84 for one component
ConvertComponent(c) == AsF64(FromLeBytesI32(c[1], c[2], c[3], SignByte(c[3])))

\* Complex::new(real as f64, imag as f64), line 86
ConvertSample(s) == [re |-> ConvertComponent(s.real), im |-> ConvertComponent(s.imag)]

\* lines 89-98
ConvertMeta(m) ==
    [src_addr |-> m.src_addr, system_ts |-> m.system_ts, seq_num |-> m.seq_num,
     ip_poa |-> m.ip_poa, fp_index |-> m.fp_index, start_index |-> m.start_index,
     cir_size |-> m.cir_size]

NoSample == [real |-> <<0, 0, 0>>, imag |-> <<0, 0, 0>>]

CirIdle ==
    /\ cir_meta = None
    /\ cir_i = 0
    /\ cir_raw = NoSample
    /\ cir_conv = [re |-> AsF64(0), im |-> AsF64(0)]
    /\ cir_out = None

\* from(report) is entered; cir is all zeros (line 67)
CirInit ==
    /\ cir_meta \in Metas
    /\ cir_i = 0
    /\ cir_raw = NoSample
    /\ cir_conv = [re |-> AsF64(0), im |-> AsF64(0)]
    /\ cir_out = None

\* one iteration of the for loop (lines 69-87) on report.cir[i] = s
ConvertStep(s) ==
    /\ cir_out = None
    /\ cir_i < CirLen
    /\ cir_raw' = s
    /\ cir_conv' = ConvertSample(s)
    /\ cir_i' = cir_i + 1
    /\ UNCHANGED <<cir_meta, cir_out>>
    /\ UNCHANGED not_cir_vars

\* the struct is built and returned (lines 89-98)
ConvertReturn ==
    /\ cir_out = None
    /\ cir_i = CirLen
    /\ cir_out' = Some(ConvertMeta(cir_meta))
    /\ UNCHANGED <<cir_meta, cir_i, cir_raw, cir_conv>>
    /\ UNCHANGED not_cir_vars

(***************************************************************************)
(* sync_and_publish (src/bin/magic-loc-central.rs, lines 104-235).  A step *)
(* runs from one .await to the next.  What a reader delivers is modelled   *)
(* by what rzcobs::decode makes of the frame's payload: an error, or the   *)
(* unstuffed bytes, of which the model keeps the length, the first three   *)
(* bytes and the fields the driver uses (len and magic mean nothing when   *)
(* ok is FALSE).                                                           *)
(***************************************************************************)
\* frames read in one run
MaxFrames == 4

\* *x -= 76.80, in hundredths (line 160)
Bias == 7680

\* bytes of a RangeReport and of an ImuReport with their magic (proto.rs)
RangeReportSize == 86
ImuReportSize == 37

\* trigger_txts and system_ts values of the reports read
DrvKeys == {5, 7}
ImuTimes == {1000, 3000}

\* the ranges of the reports read
RangeVecs ==
    {[j \in 1..8 |-> Fin(Bias + 100 * j)],
     [j \in 1..8 |-> PInf],
     <<Fin(Bias + 100), PInf, NaN, NInf, Fin(Threshold + Bias + 1),
       Fin(Threshold + Bias), Fin(0), Fin(Bias)>>}

\* what rzcobs::decode(&packet[4..]) returns (line 139)
Unstuffed ==
    {[ok |-> FALSE, len |-> 0, magic |-> "none"]}
      \cup {[ok |-> TRUE, len |-> n, magic |-> "none"] : n \in {0, 2}}
      \cup {[ok |-> TRUE, len |-> 7, magic |-> m] : m \in {"RNG", "IMU", "CIR"}}
      \cup {[ok |-> TRUE, len |-> RangeReportSize, magic |-> "RNG",
             trigger_txts |-> k, ranges |-> r] : k \in DrvKeys, r \in RangeVecs}
      \cup {[ok |-> TRUE, len |-> ImuReportSize, magic |-> "IMU", system_ts |-> t] :
               t \in ImuTimes}

\* &decoded[0..3] panics on fewer than 3 bytes (lines 143 and 201)
SlicePanics(decoded) == decoded.len < 3

\* RangeReport::read(..).unwrap() panics when the bytes run out (line 146)
RangeReadPanics(decoded) == decoded.len < RangeReportSize

\* ImuReport::read(..).unwrap() panics when the bytes run out (line 204)
ImuReadPanics(decoded) == decoded.len < ImuReportSize

\* the report read from a complete RNG payload arriving at port id
ReadRangeReport(id, decoded) ==
    [tag_addr |-> id, trigger_txts |-> decoded.trigger_txts, ranges |-> decoded.ranges]

\* (mutant) the bias is not subtracted
SubBias_Keep(x) == x

\* x - 76.80 on an f64
SubBias(x) == IF x.cls = "fin" THEN Fin(x.v - Bias) ELSE x

\* lines 159-161
BiasSubtracted(packets) ==
    [i \in DOMAIN packets |->
        [packets[i] EXCEPT !.ranges = [j \in DOMAIN @ |-> SubBias(@[j])]]]

\* Vector3::new(0.0, 0.0, 0.0), line 182
Origin == [x |-> 0, y |-> 0, z |-> 0]

\* point.unwrap_or_else(..), line 182
UnwrapOrOrigin(ret) == IF ret = None THEN Origin ELSE ret.val

\* lines 177-188
Locations(packets) ==
    [i \in DOMAIN packets |->
        [tag_addr |-> packets[i].tag_addr,
         point |-> UnwrapOrOrigin(LocalizePointResult(packets[i].ranges).ret)]]

\* localize_point panics for one of the reports
LocalizePanics(packets) ==
    \E i \in DOMAIN packets : LocalizePointResult(packets[i].ranges).ret = Panic

\* the outcomes of synchronize(&mut serial_fifos), one for every value the
\* find of line 62 can come up with
SynchronizeOutcomes(fifos) ==
    IF AnyEmpty(fifos) \/ TxtsMatches(fifos) = {}
    THEN {[fifos |-> fifos, ret |-> None]}
    ELSE {LET d == Discarded(fifos, m) IN
            IF AnyEmpty(d) THEN [fifos |-> d, ret |-> None]
            ELSE IF PopPanics(d) THEN [fifos |-> PoppedBeforePanic(d), ret |-> Panic]
            ELSE [fifos |-> Popped(d), ret |-> Some(Packets(d))]
          : m \in TxtsMatches(fifos)}

Batch(packets) == [ev |-> "batch", val |-> packets]
Send(topic, body) == [ev |-> "send", topic |-> topic, val |-> body]

\* the driver is not running
DrvIdle ==
    /\ drv_pc = "off"
    /\ drv_fifos = [i \in Anchors |-> <<>>]
    /\ drv_packets = <<>>
    /\ drv_last_imu_ts = None
    /\ drv_stop = "none"
    /\ drv_log = <<>>
    /\ drv_nframes = 0

\* lines 108-122
DrvInit ==
    /\ drv_pc = "recv"
    /\ drv_fifos = [i \in Anchors |-> <<>>]
    /\ drv_packets = <<>>
    /\ drv_last_imu_ts = None
    /\ drv_stop = "none"
    /\ drv_log = <<>>
    /\ drv_nframes = 0

\* the loop ends in a panic
Stop(why) ==
    /\ drv_pc' = "stopped"
    /\ drv_stop' = why

\* the head of the while let of line 155 on the queues fifos, with the log
\* so far: a batch has its bias subtracted and is sent under "ranges"
\* (lines 156-172); without one the loop is left and the read re-armed
\* (line 233)
DrainFrom(fifos, log) ==
    \E o \in SynchronizeOutcomes(fifos) :
      /\ drv_fifos' = o.fifos
      /\ IF o.ret = Panic
         THEN Stop("pop") /\ UNCHANGED drv_packets /\ drv_log' = log
         ELSE IF o.ret = None
         THEN /\ drv_pc' = "recv"
              /\ drv_packets' = <<>>
              /\ drv_log' = log
              /\ UNCHANGED drv_stop
         ELSE /\ drv_pc' = "send_ranges"
              /\ drv_packets' = BiasSubtracted(o.ret.val)
              /\ drv_log' = log \o <<Batch(o.ret.val),
                                     Send("ranges", BiasSubtracted(o.ret.val))>>
              /\ UNCHANGED drv_stop

\* packet_futures.next() delivers the end of a stream or a read error:
\* packet.unwrap() or panic! (lines 126-132)
RecvIoFailure ==
    /\ drv_pc = "recv"
    /\ Stop("io")
    /\ UNCHANGED <<drv_fifos, drv_packets, drv_last_imu_ts, drv_log, drv_nframes>>
    /\ UNCHANGED not_drv_vars

\* a frame whose payload does not unstuff, or unstuffs to something that is
\* neither RNG nor IMU: logged, read re-armed (lines 139-143, 201, 228-233)
RecvDropped(id, decoded) ==
    /\ drv_pc = "recv"
    /\ drv_nframes < MaxFrames
    /\ ~decoded.ok \/ (~SlicePanics(decoded) /\ decoded.magic \notin {"RNG", "IMU"})
    /\ drv_nframes' = drv_nframes + 1
    /\ drv_log' = <<>>
    /\ UNCHANGED <<drv_pc, drv_fifos, drv_packets, drv_last_imu_ts, drv_stop>>
    /\ UNCHANGED not_drv_vars

\* a frame that unstuffs to fewer than 3 bytes, or to a magic with too few
\* bytes behind it: the slice or the unwrap panics
RecvPanics(id, decoded) ==
    /\ drv_pc = "recv"
    /\ drv_nframes < MaxFrames
    /\ decoded.ok
    /\ \/ SlicePanics(decoded) /\ Stop("slice")
       \/ ~SlicePanics(decoded) /\ decoded.magic = "RNG" /\ RangeReadPanics(decoded)
            /\ Stop("read_rng")
       \/ ~SlicePanics(decoded) /\ decoded.magic = "IMU" /\ ImuReadPanics(decoded)
            /\ Stop("read_imu")
    /\ drv_nframes' = drv_nframes + 1
    /\ drv_log' = <<>>
    /\ UNCHANGED <<drv_fifos, drv_packets, drv_last_imu_ts>>
    /\ UNCHANGED not_drv_vars

\* (mutant) the report is pushed and the read re-armed without a call of
\* synchronize
RecvRange_NoDrain(id, decoded) ==
    /\ drv_pc = "recv"
    /\ drv_nframes < MaxFrames
    /\ decoded.ok /\ ~SlicePanics(decoded)
    /\ decoded.magic = "RNG" /\ ~RangeReadPanics(decoded)
    /\ drv_nframes' = drv_nframes + 1
    /\ drv_fifos' = [drv_fifos EXCEPT ![id] = Append(@, ReadRangeReport(id, decoded))]
    /\ drv_log' = <<>>
    /\ UNCHANGED <<drv_pc, drv_packets, drv_stop, drv_last_imu_ts>>
    /\ UNCHANGED not_drv_vars

\* a range report: pushed to the queue of its port, then the while let is
\* entered (lines 143-155)
RecvRange(id, decoded) ==
    /\ drv_pc = "recv"
    /\ drv_nframes < MaxFrames
    /\ decoded.ok /\ ~SlicePanics(decoded)
    /\ decoded.magic = "RNG" /\ ~RangeReadPanics(decoded)
    /\ drv_nframes' = drv_nframes + 1
    /\ DrainFrom([drv_fifos EXCEPT ![id] = Append(@, ReadRangeReport(id, decoded))], <<>>)
    /\ UNCHANGED drv_last_imu_ts
    /\ UNCHANGED not_drv_vars

\* publisher.send of the "ranges" message returns (an error is logged,
\* line 170); the reports are localized and the locations sent under
\* "points" (lines 176-194)
SendRangesReturns ==
    /\ drv_pc = "send_ranges"
    /\ IF LocalizePanics(drv_packets)
       THEN Stop("localize") /\ UNCHANGED drv_log
       ELSE /\ drv_pc' = "send_points"
            /\ drv_log' = Append(drv_log, Send("points", Locations(drv_packets)))
            /\ UNCHANGED drv_stop
    /\ UNCHANGED <<drv_fifos, drv_packets, drv_last_imu_ts, drv_nframes>>
    /\ UNCHANGED not_drv_vars

\* publisher.send of the "points" message returns; back to the head of the
\* while let
SendPointsReturns ==
    /\ drv_pc = "send_points"
    /\ DrainFrom(drv_fifos, drv_log)
    /\ UNCHANGED <<drv_last_imu_ts, drv_nframes>>
    /\ UNCHANGED not_drv_vars

\* an IMU report (lines 201-226).  decoded.system_ts - last_imu_ts on u64
\* panics in a build with overflow checks when the time went back; without
\* them it wraps and the interval is only logged.
RecvImu(id, decoded, overflow_checks) ==
    /\ drv_pc = "recv"
    /\ drv_nframes < MaxFrames
    /\ decoded.ok /\ ~SlicePanics(decoded)
    /\ decoded.magic = "IMU" /\ ~ImuReadPanics(decoded)
    /\ drv_nframes' = drv_nframes + 1
    /\ IF /\ overflow_checks
          /\ drv_last_imu_ts # None
          /\ decoded.system_ts < drv_last_imu_ts.val
       THEN /\ Stop("imu_interval")
            /\ drv_log' = <<>>
            /\ UNCHANGED drv_last_imu_ts
       ELSE /\ drv_pc' = "send_imu"
            /\ drv_last_imu_ts' = Some(decoded.system_ts)
            /\ drv_log' = <<Send("imu", decoded.system_ts)>>
            /\ UNCHANGED drv_stop
    /\ UNCHANGED <<drv_fifos, drv_packets>>
    /\ UNCHANGED not_drv_vars

\* publisher.send of the "imu" message returns; the read is re-armed
SendImuReturns ==
    /\ drv_pc = "send_imu"
    /\ drv_pc' = "recv"
    /\ UNCHANGED <<drv_fifos, drv_packets, drv_last_imu_ts, drv_stop, drv_log, drv_nframes>>
    /\ UNCHANGED not_drv_vars

(***************************************************************************)
(* Pushes and synchronize calls with the history of what was pushed and    *)
(* what was returned.  A report carries, next to the fields of the program,*)
(* its place among the pushes to its queue, which tells two reports with   *)
(* the same trigger_txts apart.                                            *)
(***************************************************************************)
\* pushes in one run
MaxPushes == 9

\* trigger_txts values of the reports pushed
OrdKeys == {5, 7}

OrdInit ==
    /\ ord_fifos = [i \in Anchors |-> <<>>]
    /\ ord_pushed = [i \in Anchors |-> <<>>]
    /\ ord_batches = <<>>
    /\ ord_ret = None

\* serial_fifos[id].push_back(decoded), line 152
OrdPush(id, k) ==
    /\ ord_ret # Panic
    /\ SumOver([i \in Anchors |-> Len(ord_pushed[i])], Anchors) < MaxPushes
    /\ LET report == [tag_addr |-> id, trigger_txts |-> k, nth |-> Len(ord_pushed[id]) + 1] IN
         /\ ord_fifos' = [ord_fifos EXCEPT ![id] = Append(@, report)]
         /\ ord_pushed' = [ord_pushed EXCEPT ![id] = Append(@, report)]
    /\ ord_ret' = None
    /\ UNCHANGED ord_batches
    /\ UNCHANGED not_ord_vars

\* one call of synchronize (lines 40-100)
OrdSynchronize ==
    /\ ord_ret # Panic
    /\ \E o \in SynchronizeOutcomes(ord_fifos) :
         /\ ord_fifos' = o.fifos
         /\ ord_ret' = o.ret
         /\ ord_batches' = IF o.ret.tag = "Some" THEN Append(ord_batches, o.ret.val)
                           ELSE ord_batches
    /\ UNCHANGED ord_pushed
    /\ UNCHANGED not_ord_vars

Init == SyncInit /\ DecInit /\ LocIdle /\ GnIdle /\ CirIdle /\ DrvIdle /\ OrdInit

Next ==
    \/ \E id \in Anchors, k \in Keys : Push(id, k)
    \/ SyncEmpty
    \/ SyncNoMatch
    \/ \E m \in Keys : SyncMatch(m)

Spec == Init /\ [][Next]_vars

\* the driver of src/main.rs: push (line 133) and synchronize (line 136)
MainNext ==
    \/ \E id \in Anchors, k \in Keys : Push(id, k)
    \/ SyncEmpty
    \/ SyncNoMatch
    \/ \E m \in Keys : SyncMatchMain(m)

SpecMain == Init /\ [][MainNext]_vars

DecNext ==
    \/ \E b \in Bytes : Extend(b)
    \/ DecodeCall

SpecDecoder == Init /\ [][DecNext]_vars

CirNext ==
    \/ \E s \in Samples : ConvertStep(s)
    \/ ConvertReturn

InitCir == SyncInit /\ DecInit /\ LocIdle /\ GnIdle /\ CirInit /\ DrvIdle /\ OrdInit

SpecCir == InitCir /\ [][CirNext]_vars

DrvNext ==
    \/ RecvIoFailure
    \/ \E id \in Anchors, decoded \in Unstuffed : RecvDropped(id, decoded)
    \/ \E id \in Anchors, decoded \in Unstuffed : RecvPanics(id, decoded)
    \/ \E id \in Anchors, decoded \in Unstuffed : RecvRange(id, decoded)
    \/ \E id \in Anchors, decoded \in Unstuffed, overflow_checks \in BOOLEAN :
          RecvImu(id, decoded, overflow_checks)
    \/ SendRangesReturns
    \/ SendPointsReturns
    \/ SendImuReturns

InitDriver == SyncInit /\ DecInit /\ LocIdle /\ GnIdle /\ CirIdle /\ DrvInit /\ OrdInit

\* the loop of lines 124-234
SpecDriver == InitDriver /\ [][DrvNext]_vars

OrdNext ==
    \/ \E id \in Anchors, k \in OrdKeys : OrdPush(id, k)
    \/ OrdSynchronize

SpecOrder == Init /\ [][OrdNext]_vars

LocNext == LocalizePoint

InitLocalize == SyncInit /\ DecInit /\ LocInit /\ GnIdle /\ CirIdle /\ DrvIdle /\ OrdInit

SpecLocalize == InitLocalize /\ [][LocNext]_vars

GnNext ==
    \/ GnEntryNone
    \/ GnEntryLoop
    \/ \E converged \in BOOLEAN : GnIterate(converged)
    \/ GnCap

InitSolver == SyncInit /\ DecInit /\ LocIdle /\ GnInit /\ CirIdle /\ DrvIdle /\ OrdInit

\* a call runs on until it returns
SpecSolver == InitSolver /\ [][GnNext]_vars /\ WF_vars(GnNext)

(***************************************************************************)
(* Properties of the synchronizer, checked under Spec.                     *)
(***************************************************************************)
\* the trigger_txts values that occur in a queue
KeysOf(q) == {q[j].trigger_txts : j \in 1..Len(q)}

\* the values that occur at least once in every queue
InEveryFifo(fifos) == {k \in Keys : \A i \in Anchors : k \in KeysOf(fifos[i])}

\* the set of elements of a sequence
Range(s) == {s[j] : j \in 1..Len(s)}

\* the step is a call of synchronize
SyncCalled == op' \in {"synchronize", "panic"}

\* the step is a call of synchronize that returned a batch
ReturnsBatch == SyncCalled /\ sync_ret'.tag = "Some"

\* C1: every batch synchronize returns holds one report of every FIFO, in
\* anchor order: report i was in FIFO i before the call and FIFO i keeps
\* exactly what was behind it; all reports of the batch carry the same
\* trigger_txts, and that value was present in every FIFO.
C1_BatchOnePerFifoSameKey ==
    [][ReturnsBatch =>
        LET batch == sync_ret'.val IN
        /\ DOMAIN batch = Anchors
        /\ \A i \in Anchors :
             /\ batch[i].tag_addr = i
             /\ batch[i].trigger_txts = batch[1].trigger_txts
             /\ \E j \in 1..Len(serial_fifos[i]) :
                  /\ serial_fifos[i][j] = batch[i]
                  /\ serial_fifos'[i] = SubSeq(serial_fifos[i], j + 1, Len(serial_fifos[i]))
        /\ batch[1].trigger_txts \in InEveryFifo(serial_fifos)
    ]_vars

\* C1 witness: a batch was returned by a call that also discarded reports
C1_Witness ==
    /\ op = "synchronize"
    /\ sync_ret.tag = "Some"
    /\ \E i \in Anchors : Len(drain_start[i]) > Len(serial_fifos[i]) + 1

\* C2 (as claimed): when no FIFO is empty and some value occurs in every
\* FIFO, the call returns a batch.
C2_MatchableReturnsBatch ==
    [][(SyncCalled
        /\ (\A i \in Anchors : Len(serial_fifos[i]) > 0)
        /\ InEveryFifo(serial_fifos) # {})
       => sync_ret'.tag = "Some"]_vars

\* C3 (as claimed): once synchronize has returned nothing, a batch has been
\* returned for every value that was in every FIFO when the draining began.
C3_DrainEmitsEveryMatchable ==
    (op = "synchronize" /\ sync_ret = None)
        => \A k \in InEveryFifo(drain_start) : k \in Range(emitted)

\* C4: a call made while some FIFO is empty returns nothing.
C4_EmptyFifoReturnsNothing ==
    [][(SyncCalled /\ (\E i \in Anchors : Len(serial_fifos[i]) = 0))
       => sync_ret' = None]_vars

\* C4 witness: a call returned nothing while one FIFO was empty and the
\* others held reports of the same trigger_txts
C4_Witness ==
    /\ op = "synchronize"
    /\ sync_ret = None
    /\ \E i \in Anchors :
         /\ serial_fifos[i] = <<>>
         /\ \A j \in Anchors \ {i} : Len(serial_fifos[j]) > 0
         /\ \E k \in Keys : \A j \in Anchors \ {i} : k \in KeysOf(serial_fifos[j])

\* the FIFOs of the example: trigger_txts (5,7,9), (9,10), (7,9)
ExampleFifos ==
    [i \in Anchors |->
        IF i = 1 THEN <<RangeReport(1, 5), RangeReport(1, 7), RangeReport(1, 9)>>
        ELSE IF i = 2 THEN <<RangeReport(2, 9), RangeReport(2, 10)>>
        ELSE IF i = 3 THEN <<RangeReport(3, 7), RangeReport(3, 9)>>
        ELSE <<>>]

\* C5: draining the example FIFOs returns one batch, keyed at 9, and leaves
\* the FIFOs as empty, (10), empty.
C5_ExampleDrain ==
    (NumAnchors = 3 /\ drain_start = ExampleFifos /\ op = "synchronize")
        => /\ emitted \in {<<>>, <<9>>}
           /\ sync_ret = None =>
                /\ emitted = <<9>>
                /\ serial_fifos = [i \in Anchors |->
                                     IF i = 2 THEN <<RangeReport(2, 10)>> ELSE <<>>]

\* C5 witness: the example has been drained
C5_Witness ==
    /\ drain_start = ExampleFifos
    /\ op = "synchronize"
    /\ sync_ret = None

(***************************************************************************)
(* Properties of the frame decoder, checked under SpecDecoder.             *)
(***************************************************************************)
\* the header sequence FF 01 00 occurs in s
ContainsHeaderSeq(s) ==
    \E i \in 1..(Len(s) - 2) : s[i] = 255 /\ s[i + 1] = 1 /\ s[i + 2] = 0

\* s[a..b] is a well-formed envelope: 00, FF 01 00, non-zero payload, 00
EnvelopeAt(s, a, b) ==
    /\ a >= 1 /\ b <= Len(s) /\ b >= a + 4
    /\ s[a] = 0 /\ s[a + 1] = 255 /\ s[a + 2] = 1 /\ s[a + 3] = 0
    /\ \A j \in (a + 4)..(b - 1) : s[j] # 0
    /\ s[b] = 0

\* s is noise, the envelope s[a..b], noise; neither noise contains FF 01 00
OneEnvelope(s, a, b) ==
    /\ EnvelopeAt(s, a, b)
    /\ ~ContainsHeaderSeq(SubSeq(s, 1, a - 1))
    /\ ~ContainsHeaderSeq(SubSeq(s, b + 1, Len(s)))

\* the noise before the envelope s[a..] ends with 00 FF 01
NoiseEndsInHeaderStart(s, a) ==
    a >= 4 /\ s[a - 3] = 0 /\ s[a - 2] = 255 /\ s[a - 1] = 1

\* further decode calls return no frame and leave the buffer as it is
Settled == LET r == Decode(src) IN r.ret = None /\ r.src = src

\* C6 (as claimed): when the stream is one envelope within header-free
\* noise, at most one frame has been returned, it is the envelope without
\* its trailing delimiter, and it has been returned once decode has settled.
C6_OneEnvelopeOneFrame ==
    \A a \in 1..Len(stream), b \in 1..Len(stream) :
        OneEnvelope(stream, a, b) =>
            /\ frames \in {<<>>, <<SubSeq(stream, a, b - 1)>>}
            /\ Settled => frames = <<SubSeq(stream, a, b - 1)>>

\* C6 (amended): the same, when moreover the noise before the envelope does
\* not end with 00 FF 01.
C6_OneEnvelopeOneFrameAmended ==
    \A a \in 1..Len(stream), b \in 1..Len(stream) :
        (OneEnvelope(stream, a, b) /\ ~NoiseEndsInHeaderStart(stream, a)) =>
            /\ frames \in {<<>>, <<SubSeq(stream, a, b - 1)>>}
            /\ Settled => frames = <<SubSeq(stream, a, b - 1)>>

\* C6 witness: an envelope with a payload, with noise holding a zero byte
\* before it and noise after it, has been decoded to the end
C6_Witness ==
    \E a \in 3..Len(stream), b \in 1..(Len(stream) - 1) :
        /\ OneEnvelope(stream, a, b)
        /\ ~NoiseEndsInHeaderStart(stream, a)
        /\ b >= a + 5
        /\ \E j \in 1..(a - 2) : stream[j] = 0
        /\ Settled
        /\ frames = <<SubSeq(stream, a, b - 1)>>

\* the step is a call of decode
DecodeCalled == dec_op' \in {"decode", "panic"}

\* the buffer starts with the validated header 00 FF 01 00
StartsWithHeader(buf) ==
    Len(buf) >= 4 /\ buf[1] = 0 /\ buf[2] = 255 /\ buf[3] = 1 /\ buf[4] = 0

\* positions of the zero bytes behind the header
ZerosBehindHeader(buf) == {j \in 5..Len(buf) : buf[j] = 0}

\* C7: a call on a buffer that starts with a validated header returns no
\* frame and leaves the buffer unchanged as long as no zero byte follows the
\* header; once one does, the call returns the bytes before that zero byte:
\* leading zero, header and payload.
C7_TruncatedEnvelopeWaits ==
    [][(DecodeCalled /\ StartsWithHeader(src)) =>
        IF ZerosBehindHeader(src) = {}
        THEN dec_ret' = None /\ src' = src
        ELSE \E z \in ZerosBehindHeader(src) :
                /\ \A y \in ZerosBehindHeader(src) : z <= y
                /\ dec_ret' = Some(SubSeq(src, 1, z - 1))
    ]_vars

\* C7 witness: the stream was one envelope with a payload, and the call made
\* after its terminating zero byte arrived has returned it
C7_Witness ==
    /\ dec_op = "decode"
    /\ dec_ret.tag = "Some"
    /\ Len(dec_ret.val) >= 6
    /\ stream = dec_ret.val \o <<0>>
    /\ src = <<0>>

\* C8: a returned frame starts with 00 FF 01 00, has no zero byte behind
\* these four and so excludes the terminating zero; the call dropped the
\* non-zero bytes before the frame, and the buffer it leaves is what followed
\* the frame, beginning with the terminating zero byte.
C8_FrameShapeAndRemainder ==
    [][(DecodeCalled /\ dec_ret'.tag = "Some") =>
        LET f == dec_ret'.val IN
        /\ Len(f) >= 4
        /\ SubSeq(f, 1, 4) = <<0, 255, 1, 0>>
        /\ \A j \in 5..Len(f) : f[j] # 0
        /\ \E d \in 0..Len(src) :
             /\ \A j \in 1..d : src[j] # 0
             /\ SubSeq(src, d + 1, d + Len(f)) = f
             /\ src' = SubSeq(src, d + Len(f) + 1, Len(src))
        /\ Len(src') >= 1
        /\ src'[1] = 0
    ]_vars

\* C8 witness: a frame with a payload was returned by a call that dropped
\* leading bytes and left bytes behind the terminating zero
C8_Witness ==
    /\ dec_op = "decode"
    /\ dec_ret.tag = "Some"
    /\ Len(dec_ret.val) >= 5
    /\ Len(src) >= 2
    /\ stream[1] # 0

\* the buffer starts with a zero byte followed by three bytes other than
\* FF 01 00
StartsWithBadHeader(buf) ==
    /\ Len(buf) >= 4
    /\ buf[1] = 0
    /\ <<buf[2], buf[3], buf[4]>> # <<255, 1, 0>>

\* positions of the zero bytes behind the first byte
ZerosBehindFirst(buf) == {j \in 2..Len(buf) : buf[j] = 0}

\* a call on a buffer with a bad header returns no frame and leaves the
\* buffer from its next zero byte on
ResyncStep ==
    (DecodeCalled /\ StartsWithBadHeader(src)) =>
        /\ dec_ret' = None
        /\ \A z \in ZerosBehindFirst(src) :
             (\A y \in ZerosBehindFirst(src) : z <= y)
                 => src' = SubSeq(src, z, Len(src))

\* the envelope s[a..b] has been returned since the last resynchronisation
ReturnedSinceResync(a, b) ==
    \E j \in (resync.nframes + 1)..Len(frames) :
        frames[j] = SubSeq(resync.buf, a, b - 1)

\* the envelope s[a..b] shares bytes with an envelope that starts before it
OverlapsEarlier(s, a, b) ==
    \E a2 \in 1..(a - 1), b2 \in (a + 1)..Len(s) : EnvelopeAt(s, a2, b2)

\* C9 (as claimed): a call on a buffer with a bad header returns no frame
\* and discards up to the next zero byte, and once decode has settled every
\* envelope of the buffer so left has been returned.
C9_ResyncLosesNoEnvelope ==
    /\ [][ResyncStep]_vars
    /\ [](Settled =>
            \A a \in 1..Len(resync.buf), b \in 1..Len(resync.buf) :
                EnvelopeAt(resync.buf, a, b) => ReturnedSinceResync(a, b))

\* C9 (amended): the same for every envelope of the buffer so left that
\* does not overlap an envelope starting before it.
C9_ResyncLosesNoEnvelopeAmended ==
    /\ [][ResyncStep]_vars
    /\ [](Settled =>
            \A a \in 1..Len(resync.buf), b \in 1..Len(resync.buf) :
                (EnvelopeAt(resync.buf, a, b) /\ ~OverlapsEarlier(resync.buf, a, b))
                    => ReturnedSinceResync(a, b))

\* C9 witness: a resynchronisation discarded bytes in front of a complete
\* envelope with a payload, and that envelope has been returned
C9_Witness ==
    /\ Settled
    /\ Len(resync.buf) < Len(stream)
    /\ \E a \in 1..Len(resync.buf), b \in 1..Len(resync.buf) :
         /\ b >= a + 5
         /\ EnvelopeAt(resync.buf, a, b)
         /\ ~OverlapsEarlier(resync.buf, a, b)
         /\ ReturnedSinceResync(a, b)

\* C10: no call of decode panics, and every call returns Ok with a frame or
\* with no frame.
C10_DecodeNeverPanics ==
    /\ dec_op # "panic"
    /\ dec_ret.tag \in {"None", "Some"}

\* C10 witness: calls have gone through the header-mismatch discard and
\* through the split of a frame, with bytes left in the buffer
C10_Witness ==
    /\ dec_op = "decode"
    /\ Len(frames) >= 1
    /\ Len(resync.buf) >= 1
    /\ Len(src) >= 1

(***************************************************************************)
(* Properties of the solver, checked under SpecLocalize and SpecSolver.    *)
(***************************************************************************)
\* a range that is no measurement: NaN, +infinity, -infinity, or above 1e6
InvalidRange(x) ==
    \/ x.cls \in {"nan", "pinf", "ninf"}
    \/ x.cls = "fin" /\ x.v > Threshold

\* C12 (as claimed): localize_point returns no estimate exactly when every
\* range it was given is invalid.
C12_NoEstimateIffNoValidRange ==
    loc_pc = "done" =>
        (loc_ret = None <=> \A i \in 1..Len(loc_ranges) : InvalidRange(loc_ranges[i]))

\* the call was made with at least one pair of valid point and distance
ValidPairs == gn_points = gn_distances /\ gn_points >= 1 /\ gn_finite

\* C13: the loop never begins more than 45 iterations, a call with valid
\* pairs returns an estimate, also when it ran out of iterations, and every
\* call returns.
C13_SolverReturnsWithinCap ==
    /\ [](gn_iter <= MaxIterations)
    /\ []((gn_pc = "done" /\ ValidPairs) => gn_ret.tag = "Some")
    /\ (gn_pc = "entry" ~> gn_pc = "done")

\* C13 witness: a call with valid pairs has returned after 45 iterations
C13_Witness ==
    /\ gn_pc = "done"
    /\ ValidPairs
    /\ gn_iter = MaxIterations
    /\ gn_ret.tag = "Some"

(***************************************************************************)
(* Further properties of the synchronizer, checked under Spec.             *)
(***************************************************************************)
\* q is a prefix of r
IsPrefix(q, r) == Len(q) <= Len(r) /\ SubSeq(r, 1, Len(q)) = q

\* the step is a push by anchor a
Pushed(a) == op' = "push" /\ serial_fifos'[a] # serial_fifos[a]

\* C14: while one anchor's FIFO is empty and that anchor pushes nothing, the
\* FIFO stays empty, no step returns a batch, and every FIFO only grows (it
\* is a prefix of what it is after the step).
C14_SilentAnchorStallsAll ==
    [][\A a \in Anchors :
         (serial_fifos[a] = <<>> /\ ~Pushed(a))
            => /\ serial_fifos'[a] = <<>>
               /\ sync_ret'.tag # "Some"
               /\ \A i \in Anchors : IsPrefix(serial_fifos[i], serial_fifos'[i])
    ]_vars

\* C14 witness: synchronize was called and returned nothing while one FIFO
\* is empty and all the others hold several reports and start with the same trigger_txts
C14_Witness ==
    /\ op = "synchronize"
    /\ sync_ret = None
    /\ \E a \in Anchors :
         /\ serial_fifos[a] = <<>>
         /\ \A i \in Anchors \ {a} :
              /\ Len(serial_fifos[i]) >= 2
              /\ serial_fifos[i][1].trigger_txts = 5

\* C17: a call that returns a batch keyed k removes from every FIFO the
\* entries up to and including the first one keyed k, and nothing else: the
\* entries before it have other keys, the entries behind it stay in order.
C17_RemovesThroughFirstMatch ==
    [][ReturnsBatch =>
        LET k == sync_ret'.val[1].trigger_txts IN
        \A i \in Anchors :
          \E p \in 1..Len(serial_fifos[i]) :
            /\ serial_fifos[i][p].trigger_txts = k
            /\ \A j \in 1..(p - 1) : serial_fifos[i][j].trigger_txts # k
            /\ serial_fifos'[i] = SubSeq(serial_fifos[i], p + 1, Len(serial_fifos[i]))
    ]_vars

\* C17 witness: a batch was returned, one FIFO lost entries before the
\* matched one and one FIFO keeps entries behind it
C17_Witness ==
    /\ op = "synchronize"
    /\ sync_ret.tag = "Some"
    /\ emitted # <<>>
    /\ \E i \in Anchors : Len(drain_start[i]) > Len(serial_fifos[i]) + Len(emitted)
    /\ \E i \in Anchors : serial_fifos[i] # <<>>

(***************************************************************************)
(* Further properties of the frame decoder, checked under SpecDecoder.     *)
(***************************************************************************)
\* the buffer holds a zero byte
HasZero(buf) == \E p \in 1..Len(buf) : buf[p] = 0

\* the position of the first zero byte of the buffer
FirstZero(buf) == CHOOSE p \in 1..Len(buf) : buf[p] = 0 /\ \A j \in 1..(p - 1) : buf[j] # 0

\* the buffer from position p on
From(buf, p) == SubSeq(buf, p, Len(buf))

\* q is a suffix of r
IsSuffix(q, r) == Len(q) <= Len(r) /\ From(r, Len(r) - Len(q) + 1) = q

\* C19: a call of decode on a buffer without a zero byte empties the buffer
\* and returns no frame; on a buffer with a zero byte it drops the bytes
\* before the first zero byte (what it leaves is a suffix of the buffer from
\* that byte on), and when fewer than 4 bytes remain from there it returns
\* no frame and leaves exactly those bytes.
C19_ScanDropsBytesBeforeFirstZero ==
    [][DecodeCalled =>
        /\ ~HasZero(src) => (src' = <<>> /\ dec_ret' = None)
        /\ HasZero(src) =>
             LET rest == From(src, FirstZero(src)) IN
             /\ IsSuffix(src', rest)
             /\ Len(rest) < 4 => (src' = rest /\ dec_ret' = None)
    ]_vars

\* C19 witness: decode returned nothing and left fewer than 4 bytes that
\* start with the first zero byte of a stream that began with other bytes
C19_Witness ==
    /\ dec_op = "decode"
    /\ dec_ret = None
    /\ frames = <<>>
    /\ Len(src) \in 1..3
    /\ src[1] = 0
    /\ Len(stream) > Len(src)
    /\ stream[1] # 0
    /\ From(stream, FirstZero(stream)) = src

(***************************************************************************)
(* Property of the synchronize of src/main.rs, checked under SpecMain.     *)
(***************************************************************************)
\* C18 (as claimed): no call of the src/main.rs synchronize fails in the pop
\* loop: after the discard loop every FIFO is non-empty, so a call that gets
\* past the counting returns a batch whose reports all carry one
\* trigger_txts.
C18_MainPopNeverFails ==
    [][SyncCalled =>
        /\ sync_ret' # Panic
        /\ sync_ret'.tag = "Some" =>
             \A i \in Anchors : sync_ret'.val[i].trigger_txts = sync_ret'.val[1].trigger_txts
    ]_vars

(***************************************************************************)
(* Properties of the CIR conversion, checked under SpecCir.                *)
(***************************************************************************)
\* 2^e
RECURSIVE Pow2(_)
Pow2(e) == IF e = 0 THEN 1 ELSE 2 * Pow2(e - 1)

\* the integer an f64 of the model stands for
F64Value(x) == (IF x.neg THEN -1 ELSE 1) * x.mant * Pow2(x.exp)

\* the 24-bit two's-complement value of a little-endian byte triple
Signed24(c) == c[1] + 256 * c[2] + 65536 * c[3] - (IF c[3] >= 128 THEN 16777216 ELSE 0)

\* C16: every converted component is the 24-bit two's-complement value of
\* its three bytes, which lies in -2^23 .. 2^23 - 1 and is the value of no
\* other byte triple; the other fields of the report are copied unchanged.
C16_ConversionLossless ==
    /\ cir_i > 0 =>
         /\ F64Value(cir_conv.re) = Signed24(cir_raw.real)
         /\ F64Value(cir_conv.im) = Signed24(cir_raw.imag)
         /\ \A x \in {cir_conv.re, cir_conv.im} :
              F64Value(x) >= -8388608 /\ F64Value(x) <= 8388607
         /\ \A t \in Triples :
              /\ t # cir_raw.real => AsF64(Signed24(t)) # cir_conv.re
              /\ t # cir_raw.imag => AsF64(Signed24(t)) # cir_conv.im
    /\ cir_out # None => cir_out.val = cir_meta

\* C16 witness: a report was converted whose last sample has a negative real
\* part and a positive imaginary part
C16_Witness ==
    /\ cir_out # None
    /\ cir_i = CirLen
    /\ cir_raw.real[3] >= 128
    /\ cir_raw.imag[3] < 128
    /\ cir_raw.imag # <<0, 0, 0>>

(***************************************************************************)
(* Properties of the pipeline driver, checked under SpecDriver.            *)
(***************************************************************************)
\* C11 (as claimed): the loop stops on a stream I/O failure only; whatever
\* frame is read, the driver gets back to waiting for the next one.
C11_OnlyIoFailureStops == drv_pc = "stopped" => drv_stop = "io"

\* x - 76.80
MinusBias(x) == IF x.cls = "fin" THEN [cls |-> "fin", v |-> x.v - 7680] ELSE x

\* the batch with the bias taken off every range of every report
Corrected(batch) ==
    [i \in DOMAIN batch |->
        [tag_addr |-> batch[i].tag_addr,
         trigger_txts |-> batch[i].trigger_txts,
         ranges |-> [j \in DOMAIN batch[i].ranges |-> MinusBias(batch[i].ranges[j])]]]

\* the estimate of a report, the origin when the solver gives none
PointOf(report) ==
    LET ret == LocalizePointResult(report.ranges).ret IN
    IF ret = None THEN [x |-> 0, y |-> 0, z |-> 0] ELSE ret.val

IsBatch(e) == e.ev = "batch"
IsSend(e, topic) == e.ev = "send" /\ e.topic = topic

\* C20: what the driver does after reading a range frame is, for every batch
\* it extracts: the batch, then one "ranges" message that holds the batch
\* with the bias taken off every range, then one "points" message with one
\* entry per report, in batch order, that holds the solver's estimate for
\* the corrected ranges (the origin without one); the next batch is
\* extracted, and the next frame read, only behind the "points" message.
C20_BatchHandledInOrder ==
    LET n == Len(drv_log) IN
    /\ \A p \in 1..n :
         /\ IsBatch(drv_log[p]) => (p % 3 = 1 /\ p < n /\ IsSend(drv_log[p + 1], "ranges"))
         /\ IsSend(drv_log[p], "ranges") =>
              /\ p % 3 = 2
              /\ IsBatch(drv_log[p - 1])
              /\ drv_log[p].val = Corrected(drv_log[p - 1].val)
         /\ IsSend(drv_log[p], "points") =>
              /\ p % 3 = 0 /\ p >= 3
              /\ IsSend(drv_log[p - 1], "ranges")
              /\ DOMAIN drv_log[p].val = DOMAIN drv_log[p - 1].val
              /\ \A i \in DOMAIN drv_log[p].val :
                   /\ drv_log[p].val[i].tag_addr = drv_log[p - 1].val[i].tag_addr
                   /\ drv_log[p].val[i].point = PointOf(drv_log[p - 1].val[i])
    /\ drv_pc = "send_ranges" => (n > 0 /\ IsSend(drv_log[n], "ranges"))
    /\ drv_pc = "send_points" => (n > 0 /\ IsSend(drv_log[n], "points"))
    /\ (drv_pc = "recv" /\ n > 0) =>
          (IsSend(drv_log[n], "points") \/ IsSend(drv_log[n], "imu"))

\* C20 witness: a batch has been handled to the end and the driver waits
\* for the next frame; the bias was taken off a finite range, one report
\* got an estimate and one got the origin
C20_Witness ==
    /\ drv_pc = "recv"
    /\ Len(drv_log) = 3
    /\ IsBatch(drv_log[1])
    /\ \E i \in DOMAIN drv_log[1].val :
         /\ drv_log[1].val[i].ranges[1].cls = "fin"
         /\ drv_log[2].val[i].ranges[1] # drv_log[1].val[i].ranges[1]
    /\ \E i \in DOMAIN drv_log[3].val : drv_log[3].val[i].point = [x |-> 0, y |-> 0, z |-> 0]
    /\ \E i \in DOMAIN drv_log[3].val : drv_log[3].val[i].point # [x |-> 0, y |-> 0, z |-> 0]

\* C21 (as claimed): no IMU report makes the computation of the gap
\* system_ts - last_imu_ts fail, whatever the order of the timestamps; after
\* an IMU report has been handled its system_ts is the last one seen.
C21_ImuGapNeverFails ==
    /\ drv_stop # "imu_interval"
    /\ drv_pc = "send_imu" =>
         (drv_last_imu_ts.tag = "Some" /\ drv_log = <<Send("imu", drv_last_imu_ts.val)>>)

(***************************************************************************)
(* Further property of localize_point, checked under SpecLocalize.         *)
(***************************************************************************)
\* the slots whose range the removal loop keeps (not above 1e6)
KeptSlots ==
    {i \in 1..Len(loc_ranges) :
        ~(\/ loc_ranges[i].cls = "pinf"
          \/ loc_ranges[i].cls = "fin" /\ loc_ranges[i].v > 100000000)}

\* the place of a kept slot among the kept slots
Rank(i) == Cardinality({j \in KeptSlots : j <= i})

\* C22: after the removal loop the retained points and distances have the
\* same length, and the j-th retained distance and the j-th retained point
\* are the range and the anchor coordinate of one and the same slot, the
\* j-th slot that was kept.
C22_RemovalKeepsPairsAligned ==
    loc_pc = "done" =>
        /\ loc_ret # Panic
        /\ Len(loc_points) = Len(loc_distances)
        /\ Len(loc_distances) = Cardinality(KeptSlots)
        /\ \A i \in KeptSlots :
             /\ loc_distances[Rank(i)] = loc_ranges[i]
             /\ loc_points[Rank(i)] = COORDINATES[i]

\* C22 witness: a call that removed two consecutive entries and the last
\* entry and kept entries before, between and behind them
C22_Witness ==
    /\ loc_pc = "done"
    /\ loc_ranges[3].cls = "pinf"
    /\ loc_ranges[4].cls = "fin" /\ loc_ranges[4].v > 100000000
    /\ loc_ranges[8].cls = "pinf"
    /\ loc_ranges[1].cls = "fin" /\ loc_ranges[1].v < 100000000
    /\ loc_ranges[5].cls = "nan"
    /\ loc_ranges[7].cls = "fin" /\ loc_ranges[7].v < 100000000
    /\ Len(loc_distances) = 5

(***************************************************************************)
(* More properties of the synchronizer, checked under Spec.                *)
(***************************************************************************)
\* C23 (as claimed): a call of synchronize that returns no batch leaves
\* every FIFO as it was.
C23_NoBatchNoDiscard ==
    [][(SyncCalled /\ sync_ret'.tag # "Some") => serial_fifos' = serial_fifos]_vars

\* no FIFO holds two reports with the same trigger_txts
NoDuplicates(fifos) ==
    \A i \in Anchors : \A p, q \in 1..Len(fifos[i]) :
        fifos[i][p].trigger_txts = fifos[i][q].trigger_txts => p = q

\* C24: on FIFOs none of which holds a trigger_txts value twice, a call of
\* synchronize returns a batch exactly when no FIFO is empty and some value
\* is present in every FIFO, and the batch is keyed at such a value.
C24_NoDuplicatesBatchIffCommonKey ==
    [][(SyncCalled /\ NoDuplicates(serial_fifos)) =>
        /\ sync_ret'.tag = "Some" <=>
             /\ \A i \in Anchors : Len(serial_fifos[i]) > 0
             /\ InEveryFifo(serial_fifos) # {}
        /\ sync_ret'.tag = "Some" =>
             sync_ret'.val[1].trigger_txts \in InEveryFifo(serial_fifos)
    ]_vars

\* C24 witness: a call returned a batch from FIFOs without duplicates that
\* held two values present in every FIFO; the other value is still there
C24_Witness ==
    /\ op = "synchronize"
    /\ sync_ret.tag = "Some"
    /\ Len(emitted) = 1
    /\ NoDuplicates(drain_start)
    /\ Cardinality(InEveryFifo(drain_start)) >= 2

(***************************************************************************)
(* More properties of the frame decoder, checked under SpecDecoder.        *)
(***************************************************************************)
\* C25 (as claimed): when a call of decode returns no frame, the buffer it
\* leaves holds no complete envelope, and a second call on that buffer
\* returns no frame either.
C25_NoFrameMeansNoEnvelopeLeft ==
    [][(DecodeCalled /\ dec_ret' = None) =>
        /\ \A a \in 1..Len(src'), b \in 1..Len(src') : ~EnvelopeAt(src', a, b)
        /\ Decode(src').ret = None
    ]_vars

\* decode called on the buffer again and again until it returns no frame
\* and leaves the buffer unchanged: the frames returned and the buffer left
RECURSIVE DrainAll(_)
DrainAll(buf) ==
    LET r == Decode(buf) IN
    IF r.ret = Panic THEN [frames |-> <<>>, src |-> buf, panic |-> TRUE]
    ELSE IF r.ret = None /\ r.src = buf THEN [frames |-> <<>>, src |-> buf, panic |-> FALSE]
    ELSE LET rest == DrainAll(r.src) IN
         [frames |-> (IF r.ret = None THEN <<>> ELSE <<r.ret.val>>) \o rest.frames,
          src |-> rest.src,
          panic |-> rest.panic]

\* C26: however the stream was cut into chunks and whenever decode was
\* called in between, once decode has settled the frames returned and the
\* buffer left are those of the run that appends the whole stream as one
\* chunk and then calls decode until it settles, so any two runs over the
\* same stream agree; and a call that changes the buffer shortens it.
C26_ChunkingDoesNotMatter ==
    /\ [](Settled =>
            LET whole == DrainAll(stream) IN
            /\ ~whole.panic
            /\ frames = whole.frames
            /\ src = whole.src)
    /\ [][DecodeCalled => (src' = src \/ Len(src') < Len(src))]_vars

\* C26 witness: a stream that holds a frame with a payload and bytes behind
\* it has been decoded in several calls, one of them on a partial envelope
C26_Witness ==
    /\ Settled
    /\ Len(frames) = 1
    /\ Len(frames[1]) > 4
    /\ Len(src) >= 2
    /\ resync.nframes = 0 /\ resync.buf # <<>>

(***************************************************************************)
(* Further property of the pipeline driver, checked under SpecDriver.      *)
(***************************************************************************)
\* occurrences of the value k over all the queues of the driver
Occurrences(k) ==
    Cardinality({<<i, j>> \in Anchors \X (1..MaxFrames) :
                    j <= Len(drv_fifos[i]) /\ drv_fifos[i][j].trigger_txts = k})

\* C27: whenever the driver waits for the next frame, a call of synchronize
\* on its queues would return nothing: some queue is empty (return at line
\* 46) or no value occurs as many times as there are queues (return at
\* line 65).
C27_DrainedWhenWaiting ==
    drv_pc = "recv" =>
        \/ \E i \in Anchors : Len(drv_fifos[i]) = 0
        \/ \A i \in Anchors : \A j \in 1..Len(drv_fifos[i]) :
              Occurrences(drv_fifos[i][j].trigger_txts) # NumAnchors

\* C27 witness: the driver waits for the next frame with a report in every
\* queue, after a drain that found nothing to return
C27_Witness ==
    /\ drv_pc = "recv"
    /\ drv_log = <<>>
    /\ drv_nframes >= NumAnchors
    /\ \A i \in Anchors : Len(drv_fifos[i]) > 0

(***************************************************************************)
(* Property of the batches over a whole run, checked under SpecOrder.      *)
(***************************************************************************)
\* C28: the report a batch takes from a FIFO is one that was pushed to that
\* FIFO, and it was pushed later than the report the batch before took from
\* it; so no report is in two batches and the reports taken from one FIFO
\* come in the order of their pushes.
C28_BatchesTakeEachReportOnceInOrder ==
    \A b \in 1..Len(ord_batches) : \A i \in Anchors :
        LET r == ord_batches[b][i] IN
        /\ r.nth \in 1..Len(ord_pushed[i])
        /\ ord_pushed[i][r.nth] = r
        /\ b > 1 => ord_batches[b - 1][i].nth < r.nth

\* C28 witness: two batches have been returned, and the second one took a
\* report that was not pushed right behind the one the first took
C28_Witness ==
    /\ Len(ord_batches) = 2
    /\ \E i \in Anchors : ord_batches[2][i].nth > ord_batches[1][i].nth + 1

====
